---- MODULE Spec2Model ----
(***************************************************************************)
(* Role-aware retrieval engine of the RBAC chatbot (app/rag_pipeline.py,   *)
(* app/document_loader.py): the document registry (document_metadata,      *)
(* doc_counter), the vector index behind self.collection, ingestion        *)
(* (initialize_vector_store, add_document) and the retrieval path          *)
(* (retrieve, query).                                                      *)
(*                                                                         *)
(* Representation.  A Python list is a sequence, a dict a function.  The   *)
(* id string f"doc_{i}" is the pair <<"doc", i>>.  The vector index is the *)
(* function chroma from ids to the entries collection.add stored; an add   *)
(* of an id the collection already holds leaves the stored entry as it is  *)
(* (Chroma skips existing ids), and any add may raise.  The similarity     *)
(* ranking of collection.query is opaque: it may return the stored entries *)
(* in any order, the first n_results of them.                              *)
(***************************************************************************)
EXTENDS FiniteSets, Integers, Sequences, TLC

\* ------------------------------------------------------------------ bounds
\* Cap on doc_counter: add_document is called while doc_counter < MaxDocs.
MaxDocs == 3

\* Number of threads of the concurrent-ingestion specification.
MaxThreads == 2

\* Cap on doc_counter in the over-fetch window specification: one document
\* more than the 3 * 2 candidates a retrieve with top_k = 2 asks for.
MaxDocsWindow == 7

\* Cap on the number of add_document calls recorded in add_log.
MaxLog == 3

\* --------------------------------------------------------------- constants
\* retrieve's default top_k, the value query() uses.
DefaultTopK == 3

\* n_results = top_k * 3
OverFetch == 3

\* ------------------------------------------------------------- list helpers
\* Python's `x in list`
InList(x, list) == \E i \in 1..Len(list) : list[i] = x

Min(a, b) == IF a < b THEN a ELSE b

\* Python's list[:n] for n >= 0
Slice(list, n) == SubSeq(list, 1, Min(n, Len(list)))

\* The set of the elements of a list
Elems(list) == {list[i] : i \in 1..Len(list)}

\* All sequences of k distinct elements of S
RECURSIVE Arrangements(_, _)
Arrangements(S, k) ==
    IF k = 0 THEN {<<>>}
    ELSE UNION {{<<x>> \o t : t \in Arrangements(S \ {x}, k - 1)} : x \in S}

\* ------------------------------------------------------------ access policy
\* A policy that also lets employee read finance (not the code's policy).
ROLE_ACCESS_MAP_EmployeeFinance ==
    [d \in {"finance", "marketing", "hr", "engineering", "general"} |->
        CASE d = "finance" -> <<"finance", "c-level", "employee">>
          [] d = "marketing" -> <<"marketing", "c-level">>
          [] d = "hr" -> <<"hr", "c-level">>
          [] d = "engineering" -> <<"engineering", "c-level">>
          [] d = "general" -> <<"finance", "marketing", "hr", "engineering",
                                "c-level", "employee">>]

\* DocumentLoader.ROLE_ACCESS_MAP
ROLE_ACCESS_MAP ==
    [d \in {"finance", "marketing", "hr", "engineering", "general"} |->
        CASE d = "finance" -> <<"finance", "c-level">>
          [] d = "marketing" -> <<"marketing", "c-level">>
          [] d = "hr" -> <<"hr", "c-level">>
          [] d = "engineering" -> <<"engineering", "c-level">>
          [] d = "general" -> <<"finance", "marketing", "hr", "engineering",
                                "c-level", "employee">>]

\* f"doc_{i}"
DocId(i) == <<"doc", i>>

\* A loader that tags a document with its department's own role only (not what
\* the code does).
LoaderDoc_DepartmentOnly(content, source, department) ==
    [content |-> content, source |-> source, department |-> department,
     allowed_roles |-> <<department>>]

\* What DocumentLoader.load_all_documents returns for the data folder: one
\* dict per file, tagged with its folder's department and that department's
\* role list.
LoaderDoc(content, source, department) ==
    [content |-> content, source |-> source, department |-> department,
     allowed_roles |-> ROLE_ACCESS_MAP[department]]

\* The data folder of the model: a finance file and a general file.
load_all_documents ==
    << LoaderDoc("finance text", "finance/financial_summary.md", "finance"),
       LoaderDoc("handbook text", "general/employee_handbook.md", "general") >>

\* DocumentLoader.get_documents_for_role(role):
\* [doc for doc in self.documents if role in doc["allowed_roles"]]
get_documents_for_role(documents, r) ==
    SelectSeq(documents, LAMBDA doc : InList(r, doc.allowed_roles))

\* ------------------------------------------------------------------ inputs
\* Roles a caller presents to retrieve and query; guest is a role no
\* department lists.
QueryRoles == {"finance", "employee", "c-level", "guest"}

\* top_k values of direct retrieve calls (query() uses DefaultTopK).
TopKs == {1, 2}

Questions == {"q1"}

\* Arguments of add_document: the uploaded file, and the department and role
\* list the caller hands over: the two lists the access policy gives finance
\* and general, and a role list that disagrees with the policy.
UploadContent == "upload text"
UploadSource == "upload.md"
AddDocumentInputs ==
    { [department |-> "finance", allowed_roles |-> ROLE_ACCESS_MAP["finance"]],
      [department |-> "general", allowed_roles |-> ROLE_ACCESS_MAP["general"]],
      [department |-> "finance", allowed_roles |-> <<"employee">>] }

\* ------------------------------------------------------------------- state
VARIABLES
    collection,           \* self.collection is not None
    chroma,               \* the entries of the collection: id -> entry
    document_metadata,    \* self.document_metadata
    doc_counter,          \* self.doc_counter
    op,                   \* the call that ran last
    outcome,              \* "returned" or the exception it raised
    added_id,             \* the id add_document returned, <<>> otherwise
    role,                 \* retrieve / query: the role argument
    top_k,                \* retrieve: the top_k argument
    question,             \* retrieve / query: the query text
    results,              \* retrieve: what collection.query returned
    department_specific,  \* retrieve: local list
    general_docs,         \* retrieve: local list
    retrieved,            \* retrieve: the list returned
    gen_calls,            \* query: the contexts generate_response was called with
    response,             \* query: the dict returned
    threads,              \* concurrent add_document calls: position and locals
    reader,               \* a retrieve running beside them: position and trace
    request,              \* the arguments of the last ingestion or endpoint call
    reply,                \* the HTTP reply of the last endpoint call
    add_log               \* the add_document calls that returned, with their ids

regVars == <<collection, chroma, document_metadata, doc_counter>>
callVars == <<op, outcome, added_id, role, top_k, question, results,
              department_specific, general_docs, retrieved, gen_calls, response>>
extraVars == <<reader, request, reply, add_log>>
vars == <<regVars, callVars, threads, extraVars>>

\* The threads that call add_document concurrently.
Threads == 1..MaxThreads

\* A thread that has not called add_document.
IdleThread ==
    [pc |-> "idle", department |-> "", allowed_roles |-> <<>>, doc_id |-> <<>>,
     counter_read |-> 0]

\* A retrieve that has not started.
IdleReader == [pc |-> "idle", idx |-> 0, unresolved |-> {}]

\* No call recorded.
NoRequest ==
    [kind |-> "none", user_role |-> "", filename |-> <<>>, department |-> "",
     allowed_roles |-> <<>>, fault |-> "none"]

\* No endpoint call made.
NoReply == [status |-> 0, detail |-> "", body |-> <<>>]

NoResponse == [answer |-> <<>>, sources |-> <<>>, role |-> "", query |-> ""]

\* The call variables of a call that is not a retrieval.
NoRetrieval ==
    /\ role = ""
    /\ top_k = 0
    /\ question = ""
    /\ results = <<>>
    /\ department_specific = <<>>
    /\ general_docs = <<>>
    /\ retrieved = <<>>
    /\ gen_calls = <<>>
    /\ response = NoResponse

\* An ingestion call leaves them so.
ClearRetrieval ==
    /\ role' = ""
    /\ top_k' = 0
    /\ question' = ""
    /\ results' = <<>>
    /\ department_specific' = <<>>
    /\ general_docs' = <<>>
    /\ retrieved' = <<>>
    /\ gen_calls' = <<>>
    /\ response' = NoResponse

\* RAGPipeline.__init__
Init ==
    /\ collection = FALSE
    /\ chroma = <<>>
    /\ document_metadata = <<>>
    /\ doc_counter = 0
    /\ op = "none"
    /\ outcome = "none"
    /\ added_id = <<>>
    /\ NoRetrieval
    /\ threads = [t \in Threads |-> IdleThread]
    /\ reader = IdleReader
    /\ request = NoRequest
    /\ reply = NoReply
    /\ add_log = <<>>

\* ------------------------------------------------------------ the registry
\* dict[key] = value
DictSet(dict, key, value) ==
    [k \in DOMAIN dict \cup {key} |-> IF k = key THEN value ELSE dict[k]]

\* The registry entry both ingestion paths store.
MetadataEntry(source, department, allowed_roles) ==
    [source |-> source, department |-> department, allowed_roles |-> allowed_roles]

\* collection.add(ids=[doc_id], documents=[content], metadatas=[{source, department}])
\* on the entries store: an id already present keeps its entry.
CollectionAdd(store, doc_id, content, source, department) ==
    IF doc_id \in DOMAIN store THEN store
    ELSE DictSet(store, doc_id,
                 [document |-> content,
                  metadata |-> [source |-> source, department |-> department]])

\* ---------------------------------------------------------------- ingestion
\* The loop of initialize_vector_store over documents[i..] (i counts from 0):
\* store the registry entry, set doc_counter, then write the index.  failAt is
\* the iteration (counted from 1) whose collection.add raises, 0 for none.
RECURSIVE InitLoop(_, _, _, _, _, _)
InitLoop(documents, i, metadata, counter, store, failAt) ==
    IF i >= Len(documents)
    THEN [metadata |-> metadata, counter |-> counter, store |-> store, raised |-> FALSE]
    ELSE LET doc == documents[i + 1]
             doc_id == DocId(i)
             metadata2 == DictSet(metadata, doc_id,
                              MetadataEntry(doc.source, doc.department, doc.allowed_roles))
             counter2 == i + 1
         IN IF failAt = i + 1
            THEN [metadata |-> metadata2, counter |-> counter2, store |-> store,
                  raised |-> TRUE]
            ELSE InitLoop(documents, i + 1, metadata2, counter2,
                          CollectionAdd(store, doc_id, doc.content, doc.source,
                                        doc.department),
                          failAt)

\* RAGPipeline.initialize_vector_store
InitializeVectorStore(failAt) ==
        LET r == InitLoop(load_all_documents, 0, document_metadata, doc_counter,
                          chroma, failAt)
        IN /\ collection' = TRUE
           /\ document_metadata' = r.metadata
           /\ doc_counter' = r.counter
           /\ chroma' = r.store
           /\ op' = "initialize_vector_store"
           /\ outcome' = IF r.raised THEN "AddError" ELSE "returned"
           /\ added_id' = <<>>
           /\ ClearRetrieval
           /\ UNCHANGED threads

\* add_document before initialize_vector_store: RuntimeError, nothing written.
AddDocumentNotInitialized ==
    /\ ~collection
    /\ op' = "add_document"
    /\ outcome' = "RuntimeError"
    /\ added_id' = <<>>
    /\ ClearRetrieval
    /\ UNCHANGED <<regVars, threads>>

\* RAGPipeline.add_document(content, source, department, allowed_roles);
\* addOk is whether collection.add returns.
AddDocument(content, source, department, allowed_roles, addOk) ==
    /\ collection
    /\ LET doc_id == DocId(doc_counter)
       IN /\ doc_counter' = doc_counter + 1
          /\ document_metadata' =
                DictSet(document_metadata, doc_id,
                        MetadataEntry(source, department, allowed_roles))
          /\ chroma' = IF addOk
                       THEN CollectionAdd(chroma, doc_id, content, source, department)
                       ELSE chroma
          /\ outcome' = IF addOk THEN "returned" ELSE "AddError"
          /\ added_id' = IF addOk THEN doc_id ELSE <<>>
    /\ op' = "add_document"
    /\ ClearRetrieval
    /\ UNCHANGED <<collection, threads>>

AddDocumentCall ==
    \/ /\ AddDocumentNotInitialized
       /\ UNCHANGED extraVars
    \/ /\ doc_counter < MaxDocs
       /\ \E in \in AddDocumentInputs :
             AddDocument(UploadContent, UploadSource, in.department, in.allowed_roles,
                         TRUE)
       /\ UNCHANGED extraVars

\* ---------------------------------------------------------------- retrieval
\* collection.query(query_texts=[query], n_results=n): the possible answers,
\* each a list of candidates [id, document, metadata], best first, of
\* min(n, size of the collection) stored entries.
CollectionQuery(store, n) ==
    { [i \in 1..Len(ids) |->
          [id |-> ids[i], document |-> store[ids[i]].document,
           metadata |-> store[ids[i]].metadata]] :
      ids \in Arrangements(DOMAIN store, Min(n, Cardinality(DOMAIN store))) }

\* self.document_metadata.get(doc_id, {}).get("allowed_roles", [])
AllowedRolesOf(metadata, doc_id) ==
    IF doc_id \in DOMAIN metadata THEN metadata[doc_id].allowed_roles ELSE <<>>

\* The access test without the role test: every candidate passes.
HasAccess_Always(r, allowed_roles) == TRUE

\* The access test without the c-level bypass.
HasAccess_NoBypass(r, allowed_roles) == InList(r, allowed_roles)

\* if role in allowed_roles or role == "c-level"
HasAccess(r, allowed_roles) == InList(r, allowed_roles) \/ r = "c-level"

\* The doc_item retrieve builds from a candidate.  The id is not part of the
\* dict in the code; it is kept here to tell which stored document a passage is.
DocItem(cand) ==
    [id |-> cand.id, content |-> cand.document, source |-> cand.metadata.source,
     department |-> cand.metadata.department]

\* if department == "general": general_docs, else: department_specific
IsGeneral(department) == department = "general"

\* The for loop of retrieve over the candidates from position idx on: the two
\* lists <<department_specific, general_docs>> it leaves.
RECURSIVE FilterLoop(_, _, _, _, _, _)
FilterLoop(cands, idx, metadata, r, dept_list, gen_list) ==
    IF idx > Len(cands) THEN <<dept_list, gen_list>>
    ELSE LET cand == cands[idx]
             allowed_roles == AllowedRolesOf(metadata, cand.id)
         IN IF HasAccess(r, allowed_roles)
            THEN IF IsGeneral(cand.metadata.department)
                 THEN FilterLoop(cands, idx + 1, metadata, r, dept_list,
                                 Append(gen_list, DocItem(cand)))
                 ELSE FilterLoop(cands, idx + 1, metadata, r,
                                 Append(dept_list, DocItem(cand)), gen_list)
            ELSE FilterLoop(cands, idx + 1, metadata, r, dept_list, gen_list)

\* The ranking step taking the general list first.
Prioritize_GeneralFirst(dept_list, gen_list, k) ==
    LET first == Slice(gen_list, k)
    IN IF Len(first) < k
       THEN first \o Slice(dept_list, k - Len(first))
       ELSE first

\* The ranking step appending the whole general list when the
\* department-specific one is short.
Prioritize_NoRemaining(dept_list, gen_list, k) ==
    LET first == Slice(dept_list, k)
    IN IF Len(first) < k THEN first \o gen_list ELSE first

\* The ranking step that falls back to the general list only when there is
\* no department-specific passage at all.
Prioritize_EitherOr(dept_list, gen_list, k) ==
    IF dept_list = <<>> THEN Slice(gen_list, k) ELSE Slice(dept_list, k)

\* The ranking step keeping the last k department-specific passages instead
\* of the first k.
Prioritize_LastK(dept_list, gen_list, k) ==
    LET first == SubSeq(dept_list, Len(dept_list) - Min(k, Len(dept_list)) + 1,
                        Len(dept_list))
    IN IF Len(first) < k
       THEN first \o Slice(gen_list, k - Len(first))
       ELSE first

\* The ranking step without the general fallback.
Prioritize_NoGeneral(dept_list, gen_list, k) == Slice(dept_list, k)

\* retrieved = department_specific[:top_k]; if short, extend with
\* general_docs[:remaining]
Prioritize(dept_list, gen_list, k) ==
    LET first == Slice(dept_list, k)
    IN IF Len(first) < k
       THEN first \o Slice(gen_list, k - Len(first))
       ELSE first

\* A retrieval that asks the index for more candidates than top_k * 3 (not what
\* the code does).
NResults_Wide(k) == k * OverFetch + 1

\* n_results=top_k * 3
NResults(k) == k * OverFetch

\* The call variables a retrieve(q, r, k) leaves when collection.query
\* answered cands.
Retrieved(q, r, k, cands) ==
    LET lists == FilterLoop(cands, 1, document_metadata, r, <<>>, <<>>)
    IN /\ role' = r
       /\ top_k' = k
       /\ question' = q
       /\ results' = cands
       /\ department_specific' = lists[1]
       /\ general_docs' = lists[2]
       /\ retrieved' = Prioritize(lists[1], lists[2], k)

\* The call variables a retrieve(q, r, k) leaves when it raises before the loop.
RetrieveRaised(q, r, k) ==
    /\ role' = r
    /\ top_k' = k
    /\ question' = q
    /\ results' = <<>>
    /\ department_specific' = <<>>
    /\ general_docs' = <<>>
    /\ retrieved' = <<>>

\* A retrieval that bumps the id counter (not what the code does).
RetrievalFrame_Counts ==
    /\ doc_counter' = IF doc_counter < MaxDocs THEN doc_counter + 1 ELSE doc_counter
    /\ UNCHANGED <<collection, chroma, document_metadata, threads>>

\* What retrieve() and query() do to the pipeline's fields: neither assigns
\* self.collection, self.document_metadata or self.doc_counter, the index is
\* only read (collection.query) and the registry only looked up (dict.get).
RetrievalFrame == UNCHANGED <<regVars, threads>>

\* RAGPipeline.retrieve(query, role, top_k), called directly
Retrieve(q, r, k) ==
    /\ op' = "retrieve"
    /\ added_id' = <<>>
    /\ gen_calls' = <<>>
    /\ response' = NoResponse
    /\ RetrievalFrame
    /\ \/ /\ ~collection
          /\ outcome' = "RuntimeError"
          /\ RetrieveRaised(q, r, k)
       \/ /\ collection
          /\ outcome' = "QueryError"
          /\ RetrieveRaised(q, r, k)
       \/ /\ collection
          /\ outcome' = "returned"
          /\ \E cands \in CollectionQuery(chroma, NResults(k)) :
                Retrieved(q, r, k, cands)

RetrieveCall ==
    /\ \E q \in Questions, r \in QueryRoles, k \in TopKs : Retrieve(q, r, k)
    /\ UNCHANGED extraVars

\* The answer of query() when retrieve returned nothing:
\* f"No documents found accessible to {role} role for this query."
NoAccessAnswer(r) == <<"No documents found accessible to ", r, " role for this query.">>

\* What generate_response returns: the model's text, or, when the call to the
\* model raises, the string f"Error generating response: {str(e)}".
GenerateResponse(q, context, genOk) ==
    IF genOk THEN <<"text", q>> ELSE <<"Error generating response: ", "e">>

\* The source labels in the reverse of the order of the passages.
SourcesOf_Reversed(docs) == [i \in 1..Len(docs) |-> docs[Len(docs) + 1 - i].source]

\* [doc["source"] for doc in retrieved_docs]
SourcesOf(docs) == [i \in 1..Len(docs) |-> docs[i].source]

\* query() without the test for an empty retrieval.
QueryResult_AlwaysGenerate(q, r, docs, genOk) ==
    [calls |-> <<docs>>,
     dict |-> [answer |-> GenerateResponse(q, docs, genOk),
               sources |-> SourcesOf(docs), role |-> r, query |-> q]]

\* query() calling generate_response before the test for an empty retrieval.
QueryResult_GenerateFirst(q, r, docs, genOk) ==
    [calls |-> <<docs>>,
     dict |-> IF docs = <<>>
              THEN [answer |-> NoAccessAnswer(r), sources |-> <<>>, role |-> r,
                    query |-> q]
              ELSE [answer |-> GenerateResponse(q, docs, genOk),
                    sources |-> SourcesOf(docs), role |-> r, query |-> q]]

\* The dict query() returns for the passages retrieve returned, and the calls
\* of generate_response it makes for it.
QueryResult(q, r, docs, genOk) ==
    IF docs = <<>>
    THEN [calls |-> <<>>,
          dict |-> [answer |-> NoAccessAnswer(r), sources |-> <<>>, role |-> r,
                    query |-> q]]
    ELSE [calls |-> <<docs>>,
          dict |-> [answer |-> GenerateResponse(q, docs, genOk),
                    sources |-> SourcesOf(docs), role |-> r, query |-> q]]

\* RAGPipeline.query(question, role): retrieve with the default top_k, then
\* the no-access dict or generate_response.  An exception of retrieve
\* propagates.  genOk is whether the call to the model inside
\* generate_response returns.
Query(q, r, genOk) ==
    /\ op' = "query"
    /\ added_id' = <<>>
    /\ RetrievalFrame
    /\ \/ /\ ~collection
          /\ outcome' = "RuntimeError"
          /\ RetrieveRaised(q, r, DefaultTopK)
          /\ gen_calls' = <<>>
          /\ response' = NoResponse
       \/ /\ collection
          /\ outcome' = "QueryError"
          /\ RetrieveRaised(q, r, DefaultTopK)
          /\ gen_calls' = <<>>
          /\ response' = NoResponse
       \/ /\ collection
          /\ outcome' = "returned"
          /\ \E cands \in CollectionQuery(chroma, NResults(DefaultTopK)) :
                /\ Retrieved(q, r, DefaultTopK, cands)
                /\ LET res == QueryResult(q, r, retrieved', genOk)
                   IN /\ gen_calls' = res.calls
                      /\ response' = res.dict

QueryCall ==
    /\ \E q \in Questions, r \in QueryRoles : Query(q, r, TRUE)
    /\ UNCHANGED extraVars

\* Ingestion and direct calls of retrieve.
Next ==
    \/ InitializeVectorStore(0) /\ UNCHANGED extraVars
    \/ AddDocumentCall
    \/ RetrieveCall

Spec == Init /\ [][Next]_vars

\* Ingestion and calls of query.
NextQuery ==
    \/ InitializeVectorStore(0) /\ UNCHANGED extraVars
    \/ AddDocumentCall
    \/ QueryCall

SpecQuery == Init /\ [][NextQuery]_vars

\* ----------------------------------------------------- concurrent ingestion
\* add_document run by several threads, one step per read or write of the
\* shared doc_counter, document_metadata and collection.  The method takes no
\* lock, so the steps of different threads interleave freely.

\* The order of the writes of add_document with the index written before the
\* registry.
StepAfter_IndexFirst(pc) ==
    CASE pc = "store_counter" -> "index_add"
      [] pc = "index_add" -> "store_metadata"
      [] pc = "store_metadata" -> "done"

\* The order of the writes of add_document: doc_counter (line 98), then
\* document_metadata (lines 101-105), then collection.add (lines 108-115).
StepAfter(pc) ==
    CASE pc = "store_counter" -> "store_metadata"
      [] pc = "store_metadata" -> "index_add"
      [] pc = "index_add" -> "done"

\* threads with thread t's record replaced
SetThread(t, rec) == [threads EXCEPT ![t] = rec]

\* The application's start-up: initialize_vector_store runs once.
Startup ==
    /\ ~collection
    /\ InitializeVectorStore(0)
    /\ UNCHANGED extraVars

\* Thread t calls add_document and passes `if not self.collection`.
ThreadCall(t, in) ==
    /\ threads[t].pc = "idle"
    /\ collection
    /\ threads' = SetThread(t, [threads[t] EXCEPT !.pc = "read_id",
                                  !.department = in.department,
                                  !.allowed_roles = in.allowed_roles])
    /\ UNCHANGED <<regVars, callVars, extraVars>>

\* Thread t calls add_document before start-up: RuntimeError.
ThreadCallNotInitialized(t) ==
    /\ threads[t].pc = "idle"
    /\ ~collection
    /\ threads' = SetThread(t, [threads[t] EXCEPT !.pc = "raised"])
    /\ UNCHANGED <<regVars, callVars, extraVars>>

\* doc_id = f"doc_{self.doc_counter}"
ThreadReadId(t) ==
    /\ threads[t].pc = "read_id"
    /\ threads' = SetThread(t, [threads[t] EXCEPT !.pc = "load_counter",
                                  !.doc_id = DocId(doc_counter)])
    /\ UNCHANGED <<regVars, callVars, extraVars>>

\* self.doc_counter += 1, the read
ThreadLoadCounter(t) ==
    /\ threads[t].pc = "load_counter"
    /\ threads' = SetThread(t, [threads[t] EXCEPT !.pc = "store_counter",
                                  !.counter_read = doc_counter])
    /\ UNCHANGED <<regVars, callVars, extraVars>>

\* self.doc_counter += 1, the write
ThreadStoreCounter(t) ==
    /\ threads[t].pc = "store_counter"
    /\ doc_counter' = threads[t].counter_read + 1
    /\ threads' = SetThread(t, [threads[t] EXCEPT !.pc = StepAfter("store_counter")])
    /\ UNCHANGED <<collection, chroma, document_metadata, callVars, extraVars>>

\* self.document_metadata[doc_id] = {...}
ThreadStoreMetadata(t) ==
    /\ threads[t].pc = "store_metadata"
    /\ document_metadata' =
          DictSet(document_metadata, threads[t].doc_id,
                  MetadataEntry(UploadSource, threads[t].department,
                                threads[t].allowed_roles))
    /\ threads' = SetThread(t, [threads[t] EXCEPT !.pc = StepAfter("store_metadata")])
    /\ UNCHANGED <<collection, chroma, doc_counter, callVars, extraVars>>

\* self.collection.add(...); return doc_id
ThreadIndexAdd(t) ==
    /\ threads[t].pc = "index_add"
    /\ chroma' = CollectionAdd(chroma, threads[t].doc_id, UploadContent, UploadSource,
                               threads[t].department)
    /\ threads' = SetThread(t, [threads[t] EXCEPT !.pc = StepAfter("index_add")])
    /\ UNCHANGED <<collection, document_metadata, doc_counter, callVars, extraVars>>

NextConc ==
    \/ Startup
    \/ \E t \in Threads :
          \/ \E in \in AddDocumentInputs : ThreadCall(t, in)
          \/ ThreadCallNotInitialized(t)
          \/ ThreadReadId(t)
          \/ ThreadLoadCounter(t)
          \/ ThreadStoreCounter(t)
          \/ ThreadStoreMetadata(t)
          \/ ThreadIndexAdd(t)

SpecConc == Init /\ [][NextConc]_vars

\* ------------------------------------------------------- over-fetch window
\* One run of the pipeline against an index larger than the over-fetch
\* window: start-up, finance uploads through add_document, then one retrieve
\* with top_k = 2, whose result is the end of the run.
WindowRoles == {"employee", "finance"}

WindowTopK == 2

WindowUpload ==
    /\ op # "retrieve"
    /\ doc_counter < MaxDocsWindow
    /\ AddDocument(UploadContent, UploadSource, "finance", ROLE_ACCESS_MAP["finance"],
                   TRUE)
    /\ UNCHANGED extraVars

WindowRetrieve ==
    /\ op # "retrieve"
    /\ \E q \in Questions, r \in WindowRoles : Retrieve(q, r, WindowTopK)
    /\ UNCHANGED extraVars

NextWindow ==
    \/ Startup
    \/ WindowUpload
    \/ WindowRetrieve

SpecWindow == Init /\ [][NextWindow]_vars

\* ------------------------------------------------- ingestion with index faults
\* initialize_vector_store where any one collection.add may raise.
FaultyInitialize ==
    /\ \E failAt \in 0..Len(load_all_documents) : InitializeVectorStore(failAt)
    /\ UNCHANGED extraVars

\* add_document where collection.add may raise.
FaultyAddDocument ==
    \/ /\ AddDocumentNotInitialized
       /\ UNCHANGED extraVars
    \/ /\ doc_counter < MaxDocs
       /\ \E in \in AddDocumentInputs, addOk \in BOOLEAN :
             AddDocument(UploadContent, UploadSource, in.department, in.allowed_roles,
                         addOk)
       /\ UNCHANGED extraVars

NextFaults ==
    \/ FaultyInitialize
    \/ FaultyAddDocument

SpecFaults == Init /\ [][NextFaults]_vars

\* ------------------------------------------- retrieve beside add_document
\* One retrieve run step by step while threads run add_document: the index
\* query (lines 128-131), then one candidate of the for loop at a time (lines
\* 141-157), each reading document_metadata as it is at that moment, then the
\* ranking (lines 159-167).

TornRoles == {"employee", "finance"}
TornTopK == 1

\* The document the threads add: a finance document with the policy's roles.
TornInput == [department |-> "finance", allowed_roles |-> ROLE_ACCESS_MAP["finance"]]

\* retrieve is called and collection.query answers.
ReaderQuery ==
    /\ reader.pc = "idle"
    /\ collection
    /\ \E q \in Questions, r \in TornRoles :
          /\ role' = r
          /\ question' = q
          /\ top_k' = TornTopK
          /\ results' \in CollectionQuery(chroma, NResults(TornTopK))
    /\ department_specific' = <<>>
    /\ general_docs' = <<>>
    /\ retrieved' = <<>>
    /\ op' = "retrieve"
    /\ outcome' = "running"
    /\ reader' = [pc |-> "loop", idx |-> 1, unresolved |-> {}]
    /\ UNCHANGED <<regVars, added_id, gen_calls, response, threads, request, reply,
                   add_log>>

\* retrieve is called before start-up: RuntimeError.
ReaderNotInitialized ==
    /\ reader.pc = "idle"
    /\ ~collection
    /\ op' = "retrieve"
    /\ outcome' = "RuntimeError"
    /\ reader' = [reader EXCEPT !.pc = "raised"]
    /\ UNCHANGED <<regVars, added_id, role, top_k, question, results,
                   department_specific, general_docs, retrieved, gen_calls, response,
                   threads, request, reply, add_log>>

\* One iteration of the for loop: candidate results[idx].  unresolved collects
\* the candidates whose id had no registry entry when the loop read it.
ReaderStep ==
    /\ reader.pc = "loop"
    /\ reader.idx <= Len(results)
    /\ LET cand == results[reader.idx]
           allowed_roles == AllowedRolesOf(document_metadata, cand.id)
           passes == HasAccess(role, allowed_roles)
       IN /\ department_specific' =
                IF passes /\ ~IsGeneral(cand.metadata.department)
                THEN Append(department_specific, DocItem(cand))
                ELSE department_specific
          /\ general_docs' =
                IF passes /\ IsGeneral(cand.metadata.department)
                THEN Append(general_docs, DocItem(cand))
                ELSE general_docs
          /\ reader' = [reader EXCEPT
                          !.idx = @ + 1,
                          !.unresolved =
                              IF cand.id \in DOMAIN document_metadata THEN @
                              ELSE @ \cup {cand.id}]
    /\ UNCHANGED <<regVars, op, outcome, added_id, role, top_k, question, results,
                   retrieved, gen_calls, response, threads, request, reply, add_log>>

\* The ranking and the return.
ReaderReturn ==
    /\ reader.pc = "loop"
    /\ reader.idx > Len(results)
    /\ retrieved' = Prioritize(department_specific, general_docs, top_k)
    /\ outcome' = "returned"
    /\ reader' = [reader EXCEPT !.pc = "done"]
    /\ UNCHANGED <<regVars, op, added_id, role, top_k, question, results,
                   department_specific, general_docs, gen_calls, response, threads,
                   request, reply, add_log>>

NextTorn ==
    \/ Startup
    \/ \E t \in Threads :
          \/ ThreadCall(t, TornInput)
          \/ ThreadCallNotInitialized(t)
          \/ ThreadReadId(t)
          \/ ThreadLoadCounter(t)
          \/ ThreadStoreCounter(t)
          \/ ThreadStoreMetadata(t)
          \/ ThreadIndexAdd(t)
    \/ ReaderQuery
    \/ ReaderNotInitialized
    \/ ReaderStep
    \/ ReaderReturn

SpecTorn == Init /\ [][NextTorn]_vars

\* ------------------------------------------------------------ file names
\* A file name is the sequence of its characters, so that suffixes, lower-casing
\* and substring tests are computed as the code computes them.

UpperCase == <<"A", "B", "C", "D", "E", "F", "G", "H", "I", "J", "K", "L", "M",
               "N", "O", "P", "Q", "R", "S", "T", "U", "V", "W", "X", "Y", "Z">>
LowerCase == <<"a", "b", "c", "d", "e", "f", "g", "h", "i", "j", "k", "l", "m",
               "n", "o", "p", "q", "r", "s", "t", "u", "v", "w", "x", "y", "z">>

\* str.lower() on one character
LowerChar(c) ==
    IF \E i \in 1..Len(UpperCase) : UpperCase[i] = c
    THEN LowerCase[CHOOSE i \in 1..Len(UpperCase) : UpperCase[i] = c]
    ELSE c

\* str.lower()
Lower(name) == [i \in 1..Len(name) |-> LowerChar(name[i])]

\* keyword in name
Contains(name, keyword) ==
    \E i \in 0..(Len(name) - Len(keyword)) :
        \A j \in 1..Len(keyword) : name[i + j] = keyword[j]

\* Path(filename).name: what follows the last "/"
BaseName(name) ==
    LET slashes == {i \in 1..Len(name) : name[i] = "/"}
    IN IF slashes = {} THEN name
       ELSE LET last == CHOOSE i \in slashes : \A j \in slashes : j <= i
            IN SubSeq(name, last + 1, Len(name))

\* Path(filename).suffix: from the last "." of the name on; empty when the name
\* has no ".", starts with its only "." or ends with ".".
Suffix(name) ==
    LET base == BaseName(name)
        dots == {i \in 1..Len(base) : base[i] = "."}
    IN IF dots = {} THEN <<>>
       ELSE LET last == CHOOSE i \in dots : \A j \in dots : j <= i
            IN IF last = 1 \/ last = Len(base) THEN <<>>
               ELSE SubSeq(base, last, Len(base))

\* FileParser.SUPPORTED_FORMATS
SUPPORTED_FORMATS == {<<".", "m", "d">>, <<".", "c", "s", "v">>, <<".", "p", "d", "f">>}

\* A validation that accepts every file name (not what the code does).
validate_filename_Any(name) == TRUE

\* FileParser.validate_filename
validate_filename(name) == Lower(Suffix(name)) \in SUPPORTED_FORMATS

\* The departments of get_department_from_filename in the order the dict is
\* walked, and the keywords of each.
InferenceOrder == <<"finance", "marketing", "hr", "engineering">>

DepartmentKeywords ==
    [finance |->
        {<<"f", "i", "n", "a", "n", "c", "e">>,
         <<"f", "i", "n", "a", "n", "c", "i", "a", "l">>,
         <<"q", "u", "a", "r", "t", "e", "r", "l", "y">>,
         <<"r", "e", "v", "e", "n", "u", "e">>,
         <<"e", "x", "p", "e", "n", "s", "e">>},
     marketing |->
        {<<"m", "a", "r", "k", "e", "t", "i", "n", "g">>,
         <<"c", "a", "m", "p", "a", "i", "g", "n">>,
         <<"s", "a", "l", "e", "s">>,
         <<"c", "u", "s", "t", "o", "m", "e", "r">>},
     hr |->
        {<<"h", "r">>,
         <<"e", "m", "p", "l", "o", "y", "e", "e">>,
         <<"p", "a", "y", "r", "o", "l", "l">>,
         <<"a", "t", "t", "e", "n", "d", "a", "n", "c", "e">>},
     engineering |->
        {<<"e", "n", "g", "i", "n", "e", "e", "r", "i", "n", "g">>,
         <<"t", "e", "c", "h", "n", "i", "c", "a", "l">>,
         <<"a", "r", "c", "h", "i", "t", "e", "c", "t", "u", "r", "e">>,
         <<"d", "e", "v", "e", "l", "o", "p", "m", "e", "n", "t">>}]

\* The inference returning the last department with a keyword in the name
\* instead of the first.
get_department_from_filename_LastMatch(name) ==
    LET name_lower == Lower(name)
        hits == {i \in 1..Len(InferenceOrder) :
                    \E keyword \in DepartmentKeywords[InferenceOrder[i]] :
                        Contains(name_lower, keyword)}
    IN IF hits = {} THEN ""
       ELSE InferenceOrder[CHOOSE i \in hits : \A j \in hits : j <= i]

\* FileParser.get_department_from_filename: the first department one of whose
\* keywords occurs in the lower-cased name; "" stands for None.
get_department_from_filename(name) ==
    LET name_lower == Lower(name)
        hits == {i \in 1..Len(InferenceOrder) :
                    \E keyword \in DepartmentKeywords[InferenceOrder[i]] :
                        Contains(name_lower, keyword)}
    IN IF hits = {} THEN ""
       ELSE InferenceOrder[CHOOSE i \in hits : \A j \in hits : i <= j]

\* The format FileParser.parse_file reports for a supported suffix.
FileFormat(name) ==
    LET ext == Lower(Suffix(name))
    IN IF ext = <<".", "m", "d">> THEN "markdown" ELSE IF ext = <<".", "c", "s", "v">> THEN "csv" ELSE "pdf"

\* The text FileParser.parse_file extracts from a file of that format.
ParsedContent(name) == <<"text of", FileFormat(name)>>

\* The files uploaded.
UploadFilenames ==
    {<<"f", "i", "n", "a", "n", "c", "e", "_", "r", "e", "p", "o", "r", "t", ".", "m", "d">>,
     <<"n", "o", "t", "e", "s", ".", "m", "d">>,
     <<"d", "a", "t", "a", ".", "t", "x", "t">>,
     <<"P", "a", "y", "r", "o", "l", "l", ".", "P", "D", "F">>,
     <<"c", "u", "s", "t", "o", "m", "e", "r", "_", "r", "e", "v", "e", "n", "u", "e", ".", "m", "d">>,
     <<"a", "r", "c", "h", "i", "t", "e", "c", "t", "u", "r", "e", "_", "h", "r", ".", "m", "d">>}

\* ---------------------------------------------------------- POST /upload
\* The roles of the users who upload, the department parameter ("" when the
\* request has none) and the documents registered by calling add_document
\* directly.
UploadUserRoles == {"c-level", "finance", "employee"}
UploadDepartments ==
    {"", "finance", "marketing", "hr", "engineering", "general", "legal"}
DirectInputs ==
    AddDocumentInputs \cup
    {[department |-> "legal", allowed_roles |-> <<"legal", "c-level">>],
     [department |-> "finance", allowed_roles |-> <<>>]}

\* valid_departments of upload_document
valid_departments == <<"finance", "marketing", "hr", "engineering", "general">>

\* The upload test letting every authenticated role through.
MayUpload_Anyone(user_role) == TRUE

\* current_user["role"] != "c-level" is what upload_document rejects.
MayUpload(user_role) == user_role = "c-level"

\* The role list upload_document computes without the c-level entry.
UploadRoles_NoCLevel(department) ==
    IF department = "general"
    THEN <<"finance", "marketing", "hr", "engineering", "employee">>
    ELSE <<department>>

\* accessible_roles of upload_document
UploadRoles(department) ==
    IF department = "general"
    THEN <<"finance", "marketing", "hr", "engineering", "c-level", "employee">>
    ELSE <<department, "c-level">>

\* The department upload_document works with: the parameter, or what the file
\* name tells when the parameter is missing ("" when it tells nothing).
ResolvedDepartment(filename, department) ==
    IF department = "" THEN get_department_from_filename(filename) ELSE department

\* The ValueError the try block of upload_document raises before it reaches
\* add_document, "" when it raises none; parseOk is whether parse_file returns.
UploadError(filename, department, parseOk) ==
    IF ~validate_filename(filename) THEN "Unsupported file format"
    ELSE IF ~parseOk THEN "Failed to parse"
    ELSE IF ResolvedDepartment(filename, department) = ""
    THEN "Could not infer department from filename"
    ELSE IF ~InList(ResolvedDepartment(filename, department), valid_departments)
    THEN "Invalid department"
    ELSE ""

UploadRequest(user_role, filename, department, fault) ==
    [kind |-> "upload", user_role |-> user_role, filename |-> filename,
     department |-> department, allowed_roles |-> <<>>, fault |-> fault]

\* No request has been rejected yet.
Serving == outcome # "HTTPException"

\* An endpoint call that ends in an HTTPException without reaching the pipeline.
Rejected(endpoint, status, detail) ==
    /\ op' = endpoint
    /\ outcome' = "HTTPException"
    /\ added_id' = <<>>
    /\ ClearRetrieval
    /\ reply' = [status |-> status, detail |-> detail, body |-> <<>>]
    /\ UNCHANGED <<regVars, threads, reader, add_log>>

\* add_log with the call that just returned, if it returned.
Logged(content, source, department, allowed_roles) ==
    IF outcome' = "returned"
    THEN Append(add_log, [content |-> content, source |-> source,
                          department |-> department, allowed_roles |-> allowed_roles,
                          id |-> added_id'])
    ELSE add_log

\* if not rag_pipeline: 500
UploadNotInitialized(user_role, filename, department) ==
    /\ Serving
    /\ ~collection
    /\ request' = UploadRequest(user_role, filename, department, "none")
    /\ Rejected("upload", 500, "RAG pipeline not initialized")

\* if current_user["role"] != "c-level": 403
UploadForbidden(user_role, filename, department) ==
    /\ Serving
    /\ collection
    /\ ~MayUpload(user_role)
    /\ request' = UploadRequest(user_role, filename, department, "none")
    /\ Rejected("upload", 403, "Only C-level executives can upload documents")

\* except ValueError: 400
UploadInvalid(user_role, filename, department, parseOk) ==
    /\ Serving
    /\ collection
    /\ MayUpload(user_role)
    /\ UploadError(filename, department, parseOk) # ""
    /\ request' = UploadRequest(user_role, filename, department,
                                IF parseOk THEN "none" ELSE "parse")
    /\ Rejected("upload", 400, UploadError(filename, department, parseOk))

\* The request reaches add_document: 200 with the UploadResponse, or 500 when
\* add_document raises.
UploadIngest(user_role, filename, department, addOk) ==
    /\ Serving
    /\ MayUpload(user_role)
    /\ UploadError(filename, department, TRUE) = ""
    /\ LET dept == ResolvedDepartment(filename, department)
           accessible_roles == UploadRoles(dept)
       IN /\ AddDocument(ParsedContent(filename), filename, dept, accessible_roles,
                         addOk)
          /\ request' = UploadRequest(user_role, filename, department,
                                      IF addOk THEN "none" ELSE "add")
          /\ reply' = IF addOk
                      THEN [status |-> 200, detail |-> "",
                            body |-> [message |-> "Document uploaded successfully",
                                      filename |-> filename,
                                      doc_id |-> added_id',
                                      department |-> dept,
                                      accessible_roles |-> accessible_roles]]
                      ELSE [status |-> 500, detail |-> "Upload failed", body |-> <<>>]
          /\ add_log' = Logged(ParsedContent(filename), filename, dept,
                               accessible_roles)
    /\ UNCHANGED reader

\* POST /upload.  A run is followed up to its first rejected request: a rejected
\* request changes nothing but the reply, so what can follow it is what can
\* follow the state before it.
UploadDocument ==
    \E user_role \in UploadUserRoles, filename \in UploadFilenames,
       department \in UploadDepartments :
        \/ UploadNotInitialized(user_role, filename, department)
        \/ UploadForbidden(user_role, filename, department)
        \/ \E parseOk \in BOOLEAN :
              UploadInvalid(user_role, filename, department, parseOk)
        \/ /\ doc_counter < MaxDocs
           /\ Len(add_log) < MaxLog
           /\ \E addOk \in BOOLEAN :
                 UploadIngest(user_role, filename, department, addOk)

\* add_document called directly on the pipeline.
DirectAddDocument ==
    \/ /\ AddDocumentNotInitialized
       /\ request' = [NoRequest EXCEPT !.kind = "add_document"]
       /\ UNCHANGED <<reader, reply, add_log>>
    \/ /\ doc_counter < MaxDocs
       /\ Len(add_log) < MaxLog
       /\ \E in \in DirectInputs :
             /\ AddDocument(UploadContent, UploadSource, in.department,
                            in.allowed_roles, TRUE)
             /\ request' = [NoRequest EXCEPT !.kind = "add_document",
                                             !.department = in.department,
                                             !.allowed_roles = in.allowed_roles]
             /\ add_log' = Logged(UploadContent, UploadSource, in.department,
                                  in.allowed_roles)
       /\ UNCHANGED <<reader, reply>>

\* initialize_vector_store, at start-up or called again.
IngestInitialize ==
    /\ InitializeVectorStore(0)
    /\ request' = [NoRequest EXCEPT !.kind = "initialize_vector_store"]
    /\ UNCHANGED <<reader, reply, add_log>>

\* The application's start-up, before the uploads.
UploadStartup ==
    /\ ~collection
    /\ Serving
    /\ IngestInitialize

\* The service: start-up, then /upload requests.
NextUpload ==
    \/ UploadStartup
    \/ UploadDocument

SpecUpload == Init /\ [][NextUpload]_vars

\* The pipeline used directly: initialize_vector_store and add_document.
NextDirect ==
    \/ IngestInitialize
    \/ DirectAddDocument

SpecDirect == Init /\ [][NextDirect]_vars

\* ----------------------------------------------------------- POST /query
\* The roles of the users who query.
EndpointRoles == {"finance", "employee", "c-level"}

QueryRequestOf(user_role, fault) ==
    [NoRequest EXCEPT !.kind = "query", !.user_role = user_role, !.fault = fault]

\* if not rag_pipeline: 500
QueryNotInitialized(user_role) ==
    /\ Serving
    /\ ~collection
    /\ request' = QueryRequestOf(user_role, "none")
    /\ Rejected("query", 500, "RAG pipeline not initialized")

\* result = rag_pipeline.query(question, role): 200 with the dict, or 500
\* "Query failed" when query raises.  genOk is whether the call to the model
\* inside generate_response returns; the fault recorded is the one that
\* happened: the index query raising, or the model call raising.
QueryAnswered(user_role, q, genOk) ==
    /\ Serving
    /\ collection
    /\ Query(q, user_role, genOk)
    /\ request' = QueryRequestOf(user_role,
                                 IF outcome' = "QueryError" THEN "index"
                                 ELSE IF ~genOk /\ gen_calls' # <<>> THEN "generate"
                                 ELSE "none")
    /\ reply' = IF outcome' = "returned"
                THEN [status |-> 200, detail |-> "", body |-> response']
                ELSE [status |-> 500, detail |-> "Query failed", body |-> <<>>]
    /\ UNCHANGED <<reader, add_log>>

\* POST /query
QueryChatbot ==
    \E user_role \in EndpointRoles, q \in Questions :
        \/ QueryNotInitialized(user_role)
        \/ \E genOk \in BOOLEAN : QueryAnswered(user_role, q, genOk)

\* The service: start-up, documents added, /query requests.
NextService ==
    \/ Startup
    \/ AddDocumentCall
    \/ QueryChatbot

SpecService == Init /\ [][NextService]_vars

\* --------------------------------------------- one start-up, then the pipeline
\* The pipeline initialised once, at start-up, and then used: documents added
\* with add_document and retrieve called.
NextRuntime ==
    \/ Startup
    \/ AddDocumentCall
    \/ RetrieveCall

SpecRuntime == Init /\ [][NextRuntime]_vars

\* ------------------------------------------------ a second pipeline object
\* RAGPipeline() constructed again in the same process, as the test fixtures
\* and the end-to-end script do: collection None, an empty document_metadata,
\* doc_counter 0.  chromadb.Client() is called again; whether the new client
\* sees the "rbac_documents" collection the previous one filled depends on the
\* library, so both outcomes are taken.
NewPipeline ==
    /\ collection
    /\ collection' = FALSE
    /\ document_metadata' = <<>>
    /\ doc_counter' = 0
    /\ \/ chroma' = chroma
       \/ chroma' = <<>>
    /\ op' = "__init__"
    /\ outcome' = "returned"
    /\ added_id' = <<>>
    /\ ClearRetrieval
    /\ UNCHANGED <<threads, extraVars>>

\* Pipelines constructed, initialised and used one after the other.
NextSkew ==
    \/ InitializeVectorStore(0) /\ UNCHANGED extraVars
    \/ AddDocumentCall
    \/ NewPipeline
    \/ RetrieveCall

SpecSkew == Init /\ [][NextSkew]_vars

\* ------------------------------------------------ the pipeline read and written
\* The pipeline initialised at start-up, documents added, and both read
\* operations called: retrieve directly and through query.
NextReadOnly ==
    \/ Startup
    \/ AddDocumentCall
    \/ RetrieveCall
    \/ QueryCall

SpecReadOnly == Init /\ [][NextReadOnly]_vars

\* ------------------------------------------- uploads read back by c-level
\* The files and the department parameter of the c-level user's uploads.
PrivilegedFilenames ==
    {<<"f", "i", "n", "a", "n", "c", "e", "_", "r", "e", "p", "o", "r", "t", ".", "m", "d">>,
     <<"n", "o", "t", "e", "s", ".", "m", "d">>,
     <<"P", "a", "y", "r", "o", "l", "l", ".", "P", "D", "F">>}

PrivilegedDepartments == {"", "general"}

\* POST /upload by the c-level user.
PrivilegedUpload ==
    \E filename \in PrivilegedFilenames, department \in PrivilegedDepartments :
        \/ UploadNotInitialized("c-level", filename, department)
        \/ \E parseOk \in BOOLEAN :
              UploadInvalid("c-level", filename, department, parseOk)
        \/ /\ doc_counter < MaxDocs
           /\ Len(add_log) < MaxLog
           /\ \E addOk \in BOOLEAN :
                 UploadIngest("c-level", filename, department, addOk)

\* retrieve called by the c-level user while the service takes uploads.
PrivilegedRetrieve ==
    /\ Serving
    /\ \E q \in Questions, k \in TopKs : Retrieve(q, "c-level", k)
    /\ UNCHANGED extraVars

NextPrivileged ==
    \/ UploadStartup
    \/ PrivilegedUpload
    \/ PrivilegedRetrieve

SpecPrivileged == Init /\ [][NextPrivileged]_vars

\* ================================================================== claims
\* A direct retrieve call that returned.
RetrieveReturned == op = "retrieve" /\ outcome = "returned"

\* The departments the access policy lets role r read.
DepartmentsReadable(r) ==
    {d \in DOMAIN ROLE_ACCESS_MAP : r \in Elems(ROLE_ACCESS_MAP[d])}

\* The role list the registry holds for an id is there and contains r.
StoredRolesContain(r, doc_id) ==
    /\ doc_id \in DOMAIN document_metadata
    /\ r \in Elems(document_metadata[doc_id].allowed_roles)

\* The ids of a list of candidates or passages.
IdsOf(list) == {list[i].id : i \in 1..Len(list)}

\* C1 (department isolation): a retrieve by a role other than c-level never
\* returns a passage whose department is outside the departments the access
\* policy lets that role read.
C1_DepartmentIsolation ==
    (RetrieveReturned /\ role # "c-level") =>
        \A i \in 1..Len(retrieved) :
            retrieved[i].department \in DepartmentsReadable(role)

\* C2 (access filter): for a role other than c-level every passage returned
\* is a document whose registry role list contains the role, and a candidate
\* whose registry role list does not contain the role is not returned.
C2_AccessFilter ==
    (RetrieveReturned /\ role # "c-level") =>
        /\ \A i \in 1..Len(retrieved) : StoredRolesContain(role, retrieved[i].id)
        /\ \A j \in 1..Len(results) :
              ~StoredRolesContain(role, results[j].id) =>
                  results[j].id \notin IdsOf(retrieved)

\* C2 happens: a role other than c-level gets a passage while another
\* candidate of the same answer is withheld from it.
C2_Witness ==
    /\ RetrieveReturned
    /\ role # "c-level"
    /\ retrieved # <<>>
    /\ \E j \in 1..Len(results) : ~StoredRolesContain(role, results[j].id)

\* C3 (privileged bypass): for c-level the access filter removes no
\* candidate: every candidate of the index answer is in one of the two lists
\* the ranking step reads, whatever its registry role list.
C3_PrivilegedBypass ==
    (RetrieveReturned /\ role = "c-level") =>
        /\ Len(department_specific) + Len(general_docs) = Len(results)
        /\ IdsOf(results) = IdsOf(department_specific) \cup IdsOf(general_docs)

\* C3 happens: c-level is returned a document whose registry role list does
\* not contain c-level.
C3_Witness ==
    /\ RetrieveReturned
    /\ role = "c-level"
    /\ \E i \in 1..Len(retrieved) : ~StoredRolesContain("c-level", retrieved[i].id)

\* The candidates of the index answer the role may read, by the registry.
AccessibleCandidate(cand) ==
    role = "c-level" \/ StoredRolesContain(role, cand.id)

\* The accessible candidates of a department other than general / of general,
\* in the order of the index answer.
AccessibleSpecific ==
    SelectSeq(results, LAMBDA c : AccessibleCandidate(c) /\ c.metadata.department # "general")

AccessibleGeneral ==
    SelectSeq(results, LAMBDA c : AccessibleCandidate(c) /\ c.metadata.department = "general")

\* C4 (prioritization): in the list retrieve returns no general passage comes
\* before a department-specific one, and a general passage is present only if
\* fewer than top_k accessible department-specific candidates exist.
C4_Prioritization ==
    RetrieveReturned =>
        /\ \A i, j \in 1..Len(retrieved) :
              (i < j /\ retrieved[i].department = "general") =>
                  retrieved[j].department = "general"
        /\ (\E i \in 1..Len(retrieved) : retrieved[i].department = "general") =>
              Len(AccessibleSpecific) < top_k

\* C4 happens: the index ranks a general candidate first, and the list
\* returned starts with a department-specific passage and ends with a general
\* one.
C4_Witness ==
    /\ RetrieveReturned
    /\ Len(retrieved) >= 2
    /\ results[1].metadata.department = "general"
    /\ retrieved[1].department # "general"
    /\ retrieved[Len(retrieved)].department = "general"

\* The passage of a candidate: its text, source label and department.
PassageOf(cand) ==
    [id |-> cand.id, content |-> cand.document, source |-> cand.metadata.source,
     department |-> cand.metadata.department]

PassagesOf(cands) == [i \in 1..Len(cands) |-> PassageOf(cands[i])]

\* C5 (result shape): retrieve returns the first min(top_k, d) accessible
\* department-specific candidates in the order of the index answer, followed
\* by the first min(top_k - min(top_k, d), g) accessible general candidates in
\* that order, and never more than top_k passages.
C5_ResultShape ==
    RetrieveReturned =>
        LET d == Len(AccessibleSpecific)
            g == Len(AccessibleGeneral)
            nd == Min(top_k, d)
            ng == Min(top_k - nd, g)
        IN /\ retrieved = PassagesOf(SubSeq(AccessibleSpecific, 1, nd))
                            \o PassagesOf(SubSeq(AccessibleGeneral, 1, ng))
           /\ Len(retrieved) <= top_k

\* C5 happens: a general candidate lies between two department-specific ones
\* in the index answer and is left out of the full list returned.
C5_Witness ==
    /\ RetrieveReturned
    /\ Len(results) >= 3
    /\ results[1].metadata.department # "general"
    /\ results[2].metadata.department = "general"
    /\ results[3].metadata.department # "general"
    /\ Len(retrieved) = top_k
    /\ IdsOf(retrieved) = {results[1].id, results[3].id}

\* A query call that returned.
QueryReturned == op = "query" /\ outcome = "returned"

\* C7 (empty access is not an error): when no candidate of the index answer is
\* accessible to the role, retrieve returns the empty list and query returns
\* the no-access answer with no sources and the role and question echoed.
C7_EmptyAccess ==
    (QueryReturned /\ \A j \in 1..Len(results) : ~AccessibleCandidate(results[j])) =>
        /\ retrieved = <<>>
        /\ response = [answer |-> <<"No documents found accessible to ", role,
                                    " role for this query.">>,
                       sources |-> <<>>, role |-> role, query |-> question]

\* C7 happens: the index answered with candidates, none accessible to the
\* role, and query returned.
C7_Witness ==
    /\ QueryReturned
    /\ results # <<>>
    /\ \A j \in 1..Len(results) : ~AccessibleCandidate(results[j])
    /\ response.sources = <<>>

\* C8 (no empty context): generate_response is called only when retrieve
\* returned at least one passage, with the passages retrieve returned, which
\* are between 1 and 3.
C8_NeverZeroPassages ==
    /\ \A i \in 1..Len(gen_calls) :
          /\ Len(gen_calls[i]) >= 1
          /\ Len(gen_calls[i]) <= 3
          /\ gen_calls[i] = retrieved
    /\ (QueryReturned /\ retrieved = <<>>) => gen_calls = <<>>

\* C8 happens: generate_response was called with three passages.
C8_Witness ==
    /\ QueryReturned
    /\ Len(gen_calls) = 1
    /\ Len(gen_calls[1]) = 3

\* C10 (ids are never reused): an add_document never returns an id the
\* registry already holds, and no call replaces the metadata stored under an
\* id by other metadata.
C10_IdsNeverReused ==
    [][ /\ (op' = "add_document" /\ outcome' = "returned") =>
              added_id' \notin DOMAIN document_metadata
        /\ \A id \in DOMAIN document_metadata :
              /\ id \in DOMAIN document_metadata'
              /\ document_metadata'[id] = document_metadata[id] ]_vars

\* The threads whose add_document has computed its id.
WithId == {t \in Threads : threads[t].doc_id # <<>>}

\* The threads between their metadata write and their index write.
BetweenWrites == {t \in Threads : threads[t].pc = "index_add"}

\* C9 (concurrent ingestion): concurrent add_document calls get distinct ids,
\* no call overwrites the metadata another call stored, and the metadata
\* write and index write of one call are not interleaved with another's.
C9_ConcurrentIngestion ==
    /\ \A t1, t2 \in WithId : t1 # t2 => threads[t1].doc_id # threads[t2].doc_id
    /\ \A t \in Threads :
          threads[t].pc \in {"index_add", "done"} =>
              document_metadata[threads[t].doc_id] =
                  MetadataEntry(UploadSource, threads[t].department,
                                threads[t].allowed_roles)
    /\ Cardinality(BetweenWrites) <= 1

\* The registered documents the role may read, by the registry.
AccessibleRegistered ==
    {id \in DOMAIN document_metadata : role = "c-level" \/ StoredRolesContain(role, id)}

\* The candidates of the index answer the role may read.
AccessibleCandidates ==
    {results[j].id : j \in {i \in 1..Len(results) : AccessibleCandidate(results[i])}}

\* C6 as claimed: when top_k is greater than the number of registered
\* documents accessible to the role, retrieve returns all of them, each once,
\* however many inaccessible documents the index holds.
C6_ReturnsAllAccessible ==
    (RetrieveReturned /\ top_k > Cardinality(AccessibleRegistered)) =>
        /\ IdsOf(retrieved) = AccessibleRegistered
        /\ Len(retrieved) = Cardinality(AccessibleRegistered)

\* C6 as amended: the index answers with at most 3 * top_k candidates, and
\* when top_k is greater than the number of those accessible to the role,
\* retrieve returns all of them, each once, and nothing else.
C6_ReturnsAllAccessibleCandidates ==
    RetrieveReturned =>
        /\ Len(results) <= 3 * top_k
        /\ top_k > Cardinality(AccessibleCandidates) =>
              /\ IdsOf(retrieved) = AccessibleCandidates
              /\ Len(retrieved) = Cardinality(AccessibleCandidates)

\* C6 happens: the index holds more documents than the 3 * top_k it answers
\* with, all but one of the candidates are inaccessible to the role, and the
\* accessible one is returned alone.
C6_Witness ==
    /\ RetrieveReturned
    /\ Cardinality(DOMAIN chroma) > 3 * top_k
    /\ Cardinality(AccessibleCandidates) = 1
    /\ Len(results) = 3 * top_k
    /\ Len(retrieved) = 1
    /\ top_k = 2

\* ------------------------------------------------------------------------ C11
\* C11: no partial registration.  An add_document call that starts with the
\* registry and the index holding the same ids ends with them holding the same
\* ids, whether it returns or raises (a raising collection.add included), and
\* a call that raises leaves document_metadata, doc_counter and the index as
\* they were.
C11_NoPartialRegistration ==
    [][(op' = "add_document" /\ DOMAIN document_metadata = DOMAIN chroma)
         => /\ DOMAIN document_metadata' = DOMAIN chroma'
            /\ (outcome' # "returned"
                  => /\ document_metadata' = document_metadata
                     /\ doc_counter' = doc_counter
                     /\ chroma' = chroma)]_vars

\* ------------------------------------------------------------------------ C12
\* C12: no torn reads.  A retrieve that runs beside add_document calls never
\* processes a candidate that is in the index while its registry metadata is
\* absent: every candidate the index query returned has a registry entry from
\* the query on, so a new document is seen with both or not at all.
C12_NoTornReads ==
    /\ reader.unresolved = {}
    /\ reader.pc \in {"loop", "done"}
         => \A i \in 1..Len(results) : results[i].id \in DOMAIN document_metadata
    /\ DOMAIN chroma \subseteq DOMAIN document_metadata

\* The loop of a retrieve has processed a candidate while an add_document has
\* written its registry entry and not yet its index entry, and another
\* document added at run time was among the candidates.
C12_Witness ==
    /\ reader.pc = "loop"
    /\ reader.idx > 1
    /\ \E t \in Threads :
          /\ threads[t].pc = "index_add"
          /\ threads[t].doc_id \in DOMAIN document_metadata
          /\ threads[t].doc_id \notin DOMAIN chroma
          /\ threads[t].doc_id \notin IdsOf(results)
    /\ \E i \in 1..Len(results) : results[i].id = DocId(Len(load_all_documents))

\* ------------------------------------------------------------------------ C13
\* The departments the policy knows.
KnownDepartments == DOMAIN ROLE_ACCESS_MAP

\* C13: invalid department.  An add_document call on the initialised pipeline
\* with a department outside the known set does not return a document id and
\* leaves document_metadata, doc_counter and the index unchanged; a /upload
\* request that names such a department is answered 400 "Invalid department"
\* and leaves them unchanged too.
C13_InvalidDepartment ==
    [][/\ (/\ request'.kind = "add_document"
           /\ collection
           /\ request'.department \notin KnownDepartments)
          => /\ outcome' # "returned"
             /\ added_id' = <<>>
             /\ UNCHANGED <<document_metadata, doc_counter, chroma>>
       /\ (/\ request'.kind = "upload"
           /\ reply'.status \in {200, 400}
           /\ request'.fault = "none"
           /\ validate_filename(request'.filename)
           /\ request'.department \notin KnownDepartments \cup {""})
          => /\ reply'.status = 400
             /\ reply'.detail = "Invalid department"
             /\ UNCHANGED <<document_metadata, doc_counter, chroma>>]_vars

\* ------------------------------------------------------------------------ C14
\* The registry entry the bulk path stores for a document of that source and
\* department (initialize_vector_store lines 55-59 on a load_all_documents item).
BulkEntry(content, source, department) ==
    LET doc == LoaderDoc(content, source, department)
    IN MetadataEntry(doc.source, doc.department, doc.allowed_roles)

\* C14: bulk load and single-document ingestion agree.  For every known
\* department the role list upload_document computes has the members of
\* ROLE_ACCESS_MAP[department], and the registry entry a successful /upload
\* leaves has the department and the allowed-role set of the entry the bulk
\* path stores for the same content, source and department.
C14_UploadAgreesWithBulk ==
    /\ \A d \in KnownDepartments : Elems(UploadRoles(d)) = Elems(ROLE_ACCESS_MAP[d])
    /\ (request.kind = "upload" /\ reply.status = 200)
         => LET entry == document_metadata[reply.body.doc_id]
                bulk == BulkEntry(ParsedContent(request.filename), request.filename,
                                  reply.body.department)
            IN /\ reply.body.department \in KnownDepartments
               /\ entry.department = bulk.department
               /\ Elems(entry.allowed_roles) = Elems(bulk.allowed_roles)
               /\ Elems(reply.body.accessible_roles) = Elems(bulk.allowed_roles)

\* A successful upload of a general document: the case of the six-role list.
C14_Witness ==
    /\ request.kind = "upload"
    /\ reply.status = 200
    /\ reply.body.department = "general"
    /\ Len(document_metadata[reply.body.doc_id].allowed_roles) = 6
    /\ reply.body.doc_id \in DOMAIN chroma

\* ------------------------------------------------------------------------ C15
\* What retrieve returns to role r on the registry, the index answer and the
\* limit of the retrieve that just returned.
RetrieveFor(r) ==
    LET lists == FilterLoop(results, 1, document_metadata, r, <<>>, <<>>)
    IN Prioritize(lists[1], lists[2], top_k)

\* The candidates of the index answer whose stored role list contains r.
CandidatesWith(r) ==
    {results[j].id : j \in {i \in 1..Len(results) : StoredRolesContain(r, results[i].id)}}

\* The roles other than c-level that read every department role r reads.
RolesAbove(r) ==
    {r2 \in QueryRoles \ {"c-level"} : DepartmentsReadable(r) \subseteq DepartmentsReadable(r2)}

SameArguments(a, b) ==
    /\ a.content = b.content
    /\ a.source = b.source
    /\ a.department = b.department
    /\ a.allowed_roles = b.allowed_roles

\* The recorded call has its own registry entry and its own index entry.
OwnEntries(a) ==
    /\ a.id \in DOMAIN document_metadata
    /\ document_metadata[a.id] = MetadataEntry(a.source, a.department, a.allowed_roles)
    /\ a.id \in DOMAIN chroma
    /\ chroma[a.id].document = a.content

\* Whatever the index answers, retrieve returns the document of the recorded
\* call only to roles that pass the access filter on the roles it was given.
ReturnedOnlyToAllowed(a) ==
    \A r \in QueryRoles :
        \A cands \in CollectionQuery(chroma, NResults(DefaultTopK)) :
            LET lists == FilterLoop(cands, 1, document_metadata, r, <<>>, <<>>)
            IN a.id \in IdsOf(Prioritize(lists[1], lists[2], DefaultTopK))
                 => HasAccess(r, a.allowed_roles)

\* C16: two add_document calls with identical content, source, department and
\* allowed_roles yield two distinct ids, each with its own registry entry and
\* index entry, and each returned by retrieve only to roles that pass the
\* access filter.
C16_SameContentTwice ==
    \A i, j \in 1..Len(add_log) :
        (i < j /\ SameArguments(add_log[i], add_log[j])) =>
            /\ add_log[i].id # add_log[j].id
            /\ OwnEntries(add_log[i])
            /\ OwnEntries(add_log[j])
            /\ ReturnedOnlyToAllowed(add_log[i])
            /\ ReturnedOnlyToAllowed(add_log[j])

\* ------------------------------------------------------------------------ C17
\* C17: every document in the registry has a non-empty allowed_roles list,
\* whichever ingestion path stored it.
C17_NonEmptyAllowedRoles ==
    \A id \in DOMAIN document_metadata : document_metadata[id].allowed_roles # <<>>

\* ------------------------------------------------------------------------ C18
\* The step is a /upload request made with a role other than c-level.
UploadByOtherRole == request'.kind = "upload" /\ request'.user_role # "c-level"

\* The step wrote nothing to the pipeline.
PipelineUntouched == UNCHANGED <<collection, document_metadata, doc_counter, chroma>>

\* C18 as claimed: a /upload request authenticated with any role other than
\* c-level is rejected with 403 before any parsing or ingestion, and leaves
\* document_metadata, doc_counter and the index unchanged.
C18_OnlyCLevelUploads ==
    [][UploadByOtherRole
         => /\ reply'.status = 403
            /\ outcome' = "HTTPException"
            /\ PipelineUntouched]_vars

\* C18, amended: such a request is rejected with 403 once the pipeline is
\* initialised and with 500 before that; either way whatever the file and the
\* department are, with nothing ingested and the pipeline unchanged.
C18_OnlyCLevelUploadsOnceInitialized ==
    [][UploadByOtherRole
         => /\ reply'.status = IF collection THEN 403 ELSE 500
            /\ reply'.body = <<>>
            /\ outcome' = "HTTPException"
            /\ added_id' = <<>>
            /\ PipelineUntouched]_vars

\* A finance user's upload of a file that would fail validation (unsupported
\* format, unknown department) was answered 403, not 400.
C18_Witness ==
    /\ request.kind = "upload"
    /\ request.user_role = "finance"
    /\ ~validate_filename(request.filename)
    /\ request.department = "legal"
    /\ reply.status = 403
    /\ collection
    /\ DOMAIN document_metadata = {DocId(0), DocId(1)}

\* ------------------------------------------------------------------------ C19
\* C19: when retrieve returned at least one passage, query returns a dict with
\* the keys answer, sources, role and query, where sources lists the source
\* labels of the retrieved passages in the order retrieve returned them, role
\* is the caller's role and query is the question unchanged.
C19_QuerySources ==
    (QueryReturned /\ retrieved # <<>>) =>
        /\ DOMAIN response = {"answer", "sources", "role", "query"}
        /\ Len(response.sources) = Len(retrieved)
        /\ \A i \in 1..Len(retrieved) : response.sources[i] = retrieved[i].source
        /\ response.role = role
        /\ response.query = question

\* query returned two passages with different source labels, in an order that
\* is not the order of the index answer (the general passage was ranked first
\* and is returned last).
C19_Witness ==
    /\ QueryReturned
    /\ Len(retrieved) >= 2
    /\ retrieved[1].source # retrieved[Len(retrieved)].source
    /\ results[1].metadata.department = "general"
    /\ retrieved[Len(retrieved)].id = results[1].id
    /\ response.sources[1] = retrieved[1].source
    /\ response.role = role /\ role # ""
    /\ response.query = question /\ question # ""

\* ------------------------------------------------------------------------ C20
\* C20: downstream failures are surfaced as a distinct condition.  When the
\* answer generator fails during query the caller does not receive a normal
\* successful result, and when the index query fails during retrieve the
\* caller receives an error and no result.
C20_FailuresSurfaced ==
    request.kind = "query" =>
        /\ request.fault = "generate"
             => /\ outcome # "returned"
                /\ reply.status # 200
        /\ request.fault = "index"
             => /\ outcome # "returned"
                /\ reply.status # 200
                /\ response = NoResponse

\* ------------------------------------------------------------------------ C21
\* The ids add_document has returned in a run with a single initialisation:
\* the counter starts at the number of loaded documents and every returning
\* call takes the next number.
RuntimeIds ==
    {DocId(i) : i \in Len(load_all_documents)..(doc_counter - 1)} \cap DOMAIN chroma

\* The position of id d in the index answer, 0 when it is not there.
RankOf(d) ==
    IF d \in IdsOf(results)
    THEN CHOOSE i \in 1..Len(results) : results[i].id = d
    ELSE 0

\* C21: a document added at run time is immediately queryable.  With the
\* pipeline initialised once, a retrieve by a role that passes the access
\* filter for an id d that add_document returned returns d whenever d is
\* department-specific and the index ranks d among its first top_k candidates.
C21_AddedIsQueryable ==
    RetrieveReturned =>
        \A d \in RuntimeIds :
            (/\ HasAccess(role, AllowedRolesOf(document_metadata, d))
             /\ document_metadata[d].department # "general"
             /\ RankOf(d) \in 1..top_k)
            => d \in IdsOf(retrieved)

\* employee retrieves the finance document that add_document stored with the
\* role list [employee]: it is ranked second of two wanted, behind the general
\* handbook, and is returned first.
C21_Witness ==
    /\ RetrieveReturned
    /\ role = "employee"
    /\ top_k = 2
    /\ DocId(2) \in RuntimeIds
    /\ document_metadata[DocId(2)].department = "finance"
    /\ RankOf(DocId(2)) = 2
    /\ results[1].metadata.department = "general"
    /\ retrieved[1].id = DocId(2)

\* ------------------------------------------------------------------------ C22
\* A keyword of department d occurs in the lower-cased file name.
KeywordOccurs(d, name) ==
    \E keyword \in DepartmentKeywords[d] : Contains(Lower(name), keyword)

\* The file name of the witness of C22: a marketing keyword and then a finance
\* keyword.
CustomerRevenue == <<"c", "u", "s", "t", "o", "m", "e", "r", "_", "r", "e", "v", "e", "n", "u", "e", ".", "m", "d">>

\* C22: department inference.  get_department_from_filename returns the first
\* department, in the order finance, marketing, hr, engineering, one of whose
\* keywords occurs in the lower-cased file name, and None ("") when no keyword
\* occurs; it never returns general; a /upload without a department that
\* succeeds registers the document under the inferred department.
C22_DepartmentInference ==
    /\ InferenceOrder = <<"finance", "marketing", "hr", "engineering">>
    /\ request.kind = "upload" =>
          LET name == request.filename
              inferred == get_department_from_filename(name)
          IN /\ inferred # "general"
             /\ inferred = ""
                  <=> \A i \in 1..Len(InferenceOrder) :
                         ~KeywordOccurs(InferenceOrder[i], name)
             /\ inferred # ""
                  => \E i \in 1..Len(InferenceOrder) :
                        /\ inferred = InferenceOrder[i]
                        /\ KeywordOccurs(InferenceOrder[i], name)
                        /\ \A j \in 1..(i - 1) : ~KeywordOccurs(InferenceOrder[j], name)
             /\ (reply.status = 200 /\ request.department = "")
                  => /\ inferred # ""
                     /\ reply.body.department = inferred
                     /\ document_metadata[reply.body.doc_id].department = inferred
                     /\ chroma[reply.body.doc_id].metadata.department = inferred

\* A file whose name holds a marketing keyword before a finance keyword was
\* uploaded without a department and registered under finance.
C22_Witness ==
    /\ request.kind = "upload"
    /\ request.department = ""
    /\ request.filename = CustomerRevenue
    /\ KeywordOccurs("marketing", request.filename)
    /\ reply.status = 200
    /\ document_metadata[reply.body.doc_id].department = "finance"

\* ------------------------------------------------------------------------ C23
\* The candidates of the index answer whose id has no registry entry.
Unresolvable == {results[j].id : j \in 1..Len(results)} \ DOMAIN document_metadata

\* C23: unresolvable candidates are dropped.  For every role, c-level
\* included, a candidate whose id has no entry in document_metadata is never
\* part of the result of retrieve, and retrieve does not raise because of it.
C23_UnresolvableDropped ==
    (op = "retrieve" /\ Unresolvable # {}) =>
        /\ outcome = "returned"
        /\ IdsOf(retrieved) \cap Unresolvable = {}

\* C24: the retrieval path is read-only: every retrieve and every query, for
\* every role and question, whether it returns passages, returns nothing or
\* raises, leaves document_metadata, doc_counter and the contents of the index
\* as they were.
C24_RetrievalReadOnly ==
    [][(op' \in {"retrieve", "query"}) =>
          UNCHANGED <<document_metadata, doc_counter, chroma>>]_vars

\* A query that returned no passage while three documents are registered and
\* indexed.
C24_Witness ==
    /\ op = "query"
    /\ outcome = "returned"
    /\ retrieved = <<>>
    /\ doc_counter = 3
    /\ Cardinality(DOMAIN document_metadata) = 3
    /\ Cardinality(DOMAIN chroma) = 3

\* ------------------------------------------------------------------------ C25
\* The ids the index holds but did not put in its answer to the last query:
\* the documents it ranked after the last candidate.
RankedOutside == DOMAIN chroma \ IdsOf(results)

\* C25 (over-fetch window): the one index query of a retrieve asks for
\* top_k * 3 candidates, so its answer has min(top_k * 3, index size) of them;
\* every passage returned is one of those candidates; and a document ranked
\* after the answer is never returned, accessible or not, even when fewer than
\* top_k passages are returned.
C25_OverFetchWindow ==
    RetrieveReturned =>
        /\ Len(results) = Min(top_k * 3, Cardinality(DOMAIN chroma))
        /\ \A i \in 1..Len(retrieved) :
              \E j \in 1..Len(results) : retrieved[i] = PassageOf(results[j])
        /\ IdsOf(retrieved) \cap RankedOutside = {}

\* C25 happens: the index holds more than top_k * 3 documents, one the role
\* may read is ranked after the answer, and retrieve returns fewer than top_k
\* passages without it.
C25_Witness ==
    /\ RetrieveReturned
    /\ Cardinality(DOMAIN chroma) > top_k * 3
    /\ Len(results) = top_k * 3
    /\ RankedOutside \cap AccessibleRegistered # {}
    /\ Len(retrieved) < top_k

\* ------------------------------------------------------------------------ C26
\* The departments of the access policy other than the universal one.
SpecificDepartments == DOMAIN ROLE_ACCESS_MAP \ {"general"}

\* The registered documents tagged as the policy prescribes for their
\* department.
PolicyTagged ==
    {id \in DOMAIN document_metadata :
        /\ document_metadata[id].department \in DOMAIN ROLE_ACCESS_MAP
        /\ document_metadata[id].allowed_roles =
              ROLE_ACCESS_MAP[document_metadata[id].department]}

\* C26 (shape of the access policy): the role set of general is the union of
\* the role sets of all other departments plus employee, and employee is in
\* the role set of no department other than general; so among the registered
\* documents tagged by the policy, employee is allowed exactly on the general
\* ones.
C26_PolicyShape ==
    /\ Elems(ROLE_ACCESS_MAP["general"]) =
          UNION {Elems(ROLE_ACCESS_MAP[d]) : d \in SpecificDepartments} \cup {"employee"}
    /\ \A d \in SpecificDepartments : "employee" \notin Elems(ROLE_ACCESS_MAP[d])
    /\ \A id \in PolicyTagged :
          InList("employee", document_metadata[id].allowed_roles) <=>
              document_metadata[id].department = "general"

\* C26 happens: the policy has been applied to a general document and to a
\* document of another department, both registered with the policy's role
\* lists, and employee is in the first list only.
C26_Witness ==
    \E g, f \in DOMAIN document_metadata :
        /\ document_metadata[g].department = "general"
        /\ document_metadata[g].allowed_roles = ROLE_ACCESS_MAP["general"]
        /\ InList("employee", document_metadata[g].allowed_roles)
        /\ document_metadata[f].department \in SpecificDepartments
        /\ document_metadata[f].allowed_roles =
              ROLE_ACCESS_MAP[document_metadata[f].department]
        /\ ~InList("employee", document_metadata[f].allowed_roles)

\* ------------------------------------------------------------------------ C27
\* The number of registered documents.
Registered(metadata) == Cardinality(DOMAIN metadata)

\* C27: over any sequence of initialize_vector_store, add_document and retrieve
\* calls the number of registered documents never decreases, and each
\* add_document that returns increases it by exactly one.
C27_RegistryGrows ==
    [][/\ Registered(document_metadata') >= Registered(document_metadata)
       /\ (op' = "add_document" /\ outcome' = "returned") =>
             Registered(document_metadata') = Registered(document_metadata) + 1]_vars

\* The first half of C27 alone: the number of registered documents never
\* decreases.
C27_NeverDecreases ==
    [][Registered(document_metadata') >= Registered(document_metadata)]_vars

\* ------------------------------------------------------------------------ C28
\* The candidates of the index answer that pass the plain test
\* `role in allowed_roles` for c-level, of a department other than general /
\* of general, in the order of the index answer.
PlainSpecific ==
    SelectSeq(results, LAMBDA c : /\ StoredRolesContain("c-level", c.id)
                                  /\ c.metadata.department # "general")

PlainGeneral ==
    SelectSeq(results, LAMBDA c : /\ StoredRolesContain("c-level", c.id)
                                  /\ c.metadata.department = "general")

\* C28: every document ingested through the bulk loader or through /upload is
\* registered with c-level among its allowed roles, so a retrieve by c-level
\* returns what the plain test `role in allowed_roles` alone would give it;
\* and filtering the loaded documents by c-level returns all of them.
C28_CLevelListed ==
    /\ get_documents_for_role(load_all_documents, "c-level") = load_all_documents
    /\ \A id \in DOMAIN document_metadata : StoredRolesContain("c-level", id)
    /\ (RetrieveReturned /\ role = "c-level") =>
          /\ department_specific = PassagesOf(PlainSpecific)
          /\ general_docs = PassagesOf(PlainGeneral)
          /\ retrieved = Prioritize(PassagesOf(PlainSpecific),
                                    PassagesOf(PlainGeneral), top_k)

\* C28 happens: c-level retrieves after a successful /upload and is returned
\* the uploaded document and a bulk-loaded one.
C28_Witness ==
    /\ RetrieveReturned
    /\ role = "c-level"
    /\ request.kind = "upload"
    /\ reply.status = 200
    /\ reply.body.doc_id \in IdsOf(retrieved)
    /\ DocId(0) \in IdsOf(retrieved)

\* ------------------------------------------------------------------------ C29
\* C29 (freshness of the id counter): after every completed
\* initialize_vector_store or add_document every registered id is doc_i with
\* i < doc_counter, so the id the next add_document will build, doc_<doc_counter>,
\* is not registered; a repeated initialize_vector_store after uploads included.
C29_CounterFresh ==
    (op \in {"initialize_vector_store", "add_document"} /\ outcome = "returned") =>
        /\ \A id \in DOMAIN document_metadata : id[1] = "doc" /\ id[2] < doc_counter
        /\ DocId(doc_counter) \notin DOMAIN document_metadata

\* ------------------------------------------------------------------------ C30
\* The step is a /upload request by c-level that fails validation: the file
\* extension is not a supported one, or the request names no department and no
\* department keyword occurs in the file name.
FailsValidation ==
    /\ request'.kind = "upload"
    /\ request'.user_role = "c-level"
    /\ \/ Lower(Suffix(request'.filename)) \notin SUPPORTED_FORMATS
       \/ /\ request'.department = ""
          /\ \A d \in DOMAIN DepartmentKeywords : ~KeywordOccurs(d, request'.filename)

\* The step called add_document.
CalledAddDocument == op' = "add_document"

\* C30 as claimed: a /upload request by c-level that fails validation is
\* answered with 400, never calls add_document, and leaves document_metadata,
\* doc_counter and the index unchanged.
C30_InvalidUploadRejected ==
    [][FailsValidation
         => /\ reply'.status = 400
            /\ ~CalledAddDocument
            /\ UNCHANGED <<document_metadata, doc_counter, chroma, add_log>>]_vars

\* C30, amended: such a request is answered with 400 once the pipeline is
\* initialised and with 500 before that; either way add_document is not called
\* and document_metadata, doc_counter and the index are left unchanged.
C30_InvalidUploadRejectedOnceInitialized ==
    [][FailsValidation
         => /\ reply'.status = IF collection THEN 400 ELSE 500
            /\ reply'.body = <<>>
            /\ ~CalledAddDocument
            /\ UNCHANGED <<document_metadata, doc_counter, chroma, add_log>>]_vars

\* C30 happens: on the initialised pipeline a c-level upload of a supported
\* file with no department, from whose name none can be inferred, was answered
\* 400 with the registry as start-up left it.
C30_Witness ==
    /\ request.kind = "upload"
    /\ request.user_role = "c-level"
    /\ validate_filename(request.filename)
    /\ request.department = ""
    /\ get_department_from_filename(request.filename) = ""
    /\ reply.status = 400
    /\ reply.detail = "Could not infer department from filename"
    /\ collection
    /\ DOMAIN document_metadata = {DocId(0), DocId(1)}
    /\ doc_counter = 2
====
